---- MODULE Spec2Model ----
(***************************************************************************)
(* The publish/subscribe service of app.ts with its three subscribers and  *)
(* the machine repository.  publish() is synchronous and recursive: a      *)
(* handler that publishes runs the nested dispatch inside its own call.    *)
(* The call stack is modelled explicitly, one frame per publish() call.    *)
(***************************************************************************)
EXTENDS Integers, Sequences, FiniteSets

VARIABLES
    subscribers,  \* DefaultPublishSubscribeService._subscribers: type -> handlers
    machines,     \* MachineRepository._machines: id -> [stockLevel, lowLevelWarned]
    stack,        \* the active publish() calls, outermost first
    published,    \* every event passed to publish(), in call order
    log,          \* console.log(event) of publish(): one entry per handler invocation
    failure,      \* what the last driver publish() threw ("none" if it returned)
    lastReg,      \* the last subscribe()/unsubscribe() call
    removed,      \* type -> handlers removed by unsubscribe and not subscribed since
    calls,        \* publish()/subscribe()/unsubscribe() calls made by the driver
    dispatches    \* per publish() call: the subscriber array it iterates and how it ended

vars == <<subscribers, machines, stack, published, log, failure, lastReg,
          removed, calls, dispatches>>

----------------------------------------------------------------------------
(* Bounds *)

MaxCalls == 3

MaxScript == 4

MaxSubs == 2

MaxLiveCalls == 2

----------------------------------------------------------------------------
(* Program constants *)

InitialStock == 5

SaleThreshold == 3

RefillThreshold == 3

MachineIds == {"001", "002", "003"}

UnknownId == "004"

Types == {"sale", "refill", "warning"}

Handlers == {"saleSubscriber", "refillSubscriber", "stockWarningSubscriber"}

Quantities == {1, 2}

----------------------------------------------------------------------------
(* Events *)

MachineSaleEvent(sold, machineId) ==
    [kind |-> "Sale", qty |-> sold, machineId |-> machineId]

MachineRefillEvent(refill, machineId) ==
    [kind |-> "Refill", qty |-> refill, machineId |-> machineId]

LowStockWarningEvent(machineId) ==
    [kind |-> "LowStockWarning", qty |-> 0, machineId |-> machineId]

StockLevelOkEvent(machineId) ==
    [kind |-> "StockLevelOk", qty |-> 0, machineId |-> machineId]

\* mutant: MachineRefillEvent.type() returns the sale type
typeRefillAsSale(e) ==
    CASE e.kind = "Sale" -> "sale"
      [] e.kind = "Refill" -> "sale"
      [] e.kind = "LowStockWarning" -> "warning"
      [] OTHER -> "warning"

type(e) ==
    CASE e.kind = "Sale" -> "sale"
      [] e.kind = "Refill" -> "refill"
      [] e.kind = "LowStockWarning" -> "warning"
      [] OTHER -> "warning"

DriverEvents ==
    {MachineSaleEvent(q, m) : q \in Quantities, m \in {"001", "002", UnknownId}}
    \cup {MachineRefillEvent(q, m) : q \in Quantities, m \in {"001", "002", UnknownId}}

ScriptEvents ==
    {MachineSaleEvent(q, m) : q \in Quantities, m \in {"001", "002"}}
    \cup {MachineRefillEvent(q, m) : q \in Quantities, m \in {"001", "002"}}

----------------------------------------------------------------------------
(* Helpers *)

Range(s) == {s[i] : i \in 1..Len(s)}

Top == stack[Len(stack)]

Pop(s) == SubSeq(s, 1, Len(s) - 1)

SetTop(s, f) == [s EXCEPT ![Len(s)] = f]

\* mutant: find falls back to the first machine instead of throwing
findOrFirst(id) == IF id \in DOMAIN machines THEN id ELSE "001"

find(id) == IF id \in DOMAIN machines THEN id ELSE "NotFound"

\* mutant: the dispatch walks the subscriber array from its end
FrameReversed(id, e) ==
    LET l == subscribers[type(e)]
    IN  [id |-> id, subs |-> [i \in 1..Len(l) |-> l[Len(l) + 1 - i]],
         idx |-> 1, pc |-> "next"]

Frame(id, e) ==
    [id |-> id, subs |-> subscribers[type(e)], idx |-> 1, pc |-> "next"]

CurrentHandler == Top.subs[Top.idx]

CurrentEvent == published[Top.id].ev

Handling(h) ==
    /\ stack # <<>>
    /\ Top.pc = "handling"
    /\ CurrentHandler = h

Resuming(h) ==
    /\ stack # <<>>
    /\ Top.pc = "afterPublish"
    /\ CurrentHandler = h

\* the handler returns: forEach moves on to the next subscriber
HandlerReturn(s) == SetTop(s, [s[Len(s)] EXCEPT !.pc = "next", !.idx = @ + 1])

\* an uncaught exception unwinds every active publish() call
Throw(err) ==
    /\ stack' = <<>>
    /\ failure' = err
    /\ dispatches' = [i \in 1..Len(dispatches) |->
            IF dispatches[i].state = "active"
            THEN [dispatches[i] EXCEPT !.state = "thrown"]
            ELSE dispatches[i]]

\* a subscribe()/unsubscribe() call as recorded in lastReg: `had` is whether the
\* map held the type (has(type), the result of delete(type)), `at` the number of
\* events published before the call, `idle` whether no publish() was active
RegCall(op, t, h, had) ==
    [op |-> op, type |-> t, handler |-> h, had |-> had,
     at |-> Len(published), idle |-> (stack = <<>>)]

\* line 160: the array _subscribers.get(event.type()) that forEach iterates
Dispatch(e) == [subs |-> subscribers[type(e)], state |-> "active"]

\* publish() called from a handler: the dispatch runs inside the handler's call
NestedPublish(e, by) ==
    /\ published' = Append(published, [ev |-> e, by |-> by])
    /\ dispatches' = Append(dispatches, Dispatch(e))
    /\ stack' = Append(SetTop(stack, [Top EXCEPT !.pc = "afterPublish"]),
                       Frame(Len(published) + 1, e))

----------------------------------------------------------------------------
(* Initial state: lines 222-239 of the program *)

ProgramSubscribers ==
    [t \in Types |->
        CASE t = "sale" -> <<"saleSubscriber">>
          [] t = "refill" -> <<"refillSubscriber">>
          [] OTHER -> <<"stockWarningSubscriber">>]

Machine(id) == [stockLevel |-> InitialStock, lowLevelWarned |-> FALSE]

Init ==
    /\ subscribers = ProgramSubscribers
    /\ machines = [id \in MachineIds |-> Machine(id)]
    /\ stack = <<>>
    /\ published = <<>>
    /\ log = <<>>
    /\ failure = "none"
    /\ lastReg = RegCall("none", "none", "none", FALSE)
    /\ removed = [t \in Types |-> {}]
    /\ calls = 0
    /\ dispatches = <<>>

----------------------------------------------------------------------------
(* DefaultPublishSubscribeService *)

\* publish(event) called by the driver (lines 159-164, 253)
publish(e) ==
    /\ stack = <<>>
    /\ published' = Append(published, [ev |-> e, by |-> "driver"])
    /\ dispatches' = Append(dispatches, Dispatch(e))
    /\ stack' = <<Frame(Len(published) + 1, e)>>
    /\ failure' = "none"
    /\ calls' = calls + 1
    /\ UNCHANGED <<subscribers, machines, log, lastReg, removed>>

DriverPublish ==
    \E e \in DriverEvents :
        /\ calls < MaxCalls
        /\ publish(e)

ScriptPublish ==
    \E e \in ScriptEvents :
        /\ calls < MaxScript
        /\ publish(e)

\* forEach callback, lines 160-162: console.log(event), then subscriber.handle(event)
Invoke ==
    /\ stack # <<>>
    /\ Top.pc = "next"
    /\ Top.idx <= Len(Top.subs)
    /\ log' = Append(log, [sub |-> CurrentHandler, id |-> Top.id])
    /\ stack' = SetTop(stack, [Top EXCEPT !.pc = "handling"])
    /\ UNCHANGED <<subscribers, machines, published, failure, lastReg, removed, calls,
                   dispatches>>

\* mutant: the loop over the subscribers may stop before the end of the array
PublishReturnEarly ==
    /\ stack # <<>>
    /\ Top.pc = "next"
    /\ stack' = Pop(stack)
    /\ dispatches' = [dispatches EXCEPT ![Top.id].state = "returned"]
    /\ UNCHANGED <<subscribers, machines, published, log, failure, lastReg,
                   removed, calls>>

\* forEach is exhausted: publish() returns to its caller
PublishReturn ==
    /\ stack # <<>>
    /\ Top.pc = "next"
    /\ Top.idx > Len(Top.subs)
    /\ stack' = Pop(stack)
    /\ dispatches' = [dispatches EXCEPT ![Top.id].state = "returned"]
    /\ UNCHANGED <<subscribers, machines, published, log, failure, lastReg,
                   removed, calls>>

subscribeList(list, handler) == Append(list, handler)

\* mutant: subscribe replays the retained events of the type to the new handler
subscribeReplays(t, h) ==
    /\ calls < MaxCalls
    /\ Len(subscribers[t]) < MaxSubs
    /\ subscribers' = [subscribers EXCEPT ![t] = subscribeList(@, h)]
    /\ lastReg' = RegCall("subscribe", t, h, subscribers[t] # <<>>)
    /\ removed' = [removed EXCEPT ![t] = @ \ {h}]
    /\ calls' = calls + 1
    /\ log' = log \o [i \in 1..Len(published) |-> [sub |-> h, id |-> i]]
    /\ UNCHANGED <<machines, stack, published, failure, dispatches>>

\* mutant: a forEach in progress over the array of the type visits the handler
\* pushed during the iteration
subscribeLive(t, h) ==
    /\ calls < MaxCalls
    /\ Len(subscribers[t]) < MaxSubs
    /\ subscribers' = [subscribers EXCEPT ![t] = subscribeList(@, h)]
    /\ lastReg' = RegCall("subscribe", t, h, subscribers[t] # <<>>)
    /\ removed' = [removed EXCEPT ![t] = @ \ {h}]
    /\ calls' = calls + 1
    /\ stack' = [i \in 1..Len(stack) |->
                    IF type(published[stack[i].id].ev) = t
                        THEN [stack[i] EXCEPT !.subs = Append(@, h)]
                        ELSE stack[i]]
    /\ UNCHANGED <<machines, published, log, failure, dispatches>>

\* subscribe(type, handler), lines 165-171
subscribe(t, h) ==
    /\ calls < MaxCalls
    /\ Len(subscribers[t]) < MaxSubs
    /\ subscribers' = [subscribers EXCEPT ![t] = subscribeList(@, h)]
    /\ lastReg' = RegCall("subscribe", t, h, subscribers[t] # <<>>)
    /\ removed' = [removed EXCEPT ![t] = @ \ {h}]
    /\ calls' = calls + 1
    /\ UNCHANGED <<machines, stack, published, log, failure, dispatches>>

Subscribe == \E t \in Types, h \in Handlers : subscribe(t, h)

\* mutant: unsubscribe clears the whole map
unsubscribeClearsAll(subs, t) == [u \in Types |-> <<>>]

\* mutant: unsubscribe leaves the map as it is
unsubscribeNoop(subs, t) == subs

unsubscribeMap(subs, t) == [subs EXCEPT ![t] = <<>>]

\* unsubscribe(type), lines 173-175
unsubscribe(t) ==
    /\ calls < MaxCalls
    /\ subscribers' = unsubscribeMap(subscribers, t)
    /\ lastReg' = RegCall("unsubscribe", t, "none", subscribers[t] # <<>>)
    /\ removed' = [removed EXCEPT ![t] = @ \cup Range(subscribers[t])]
    /\ calls' = calls + 1
    /\ UNCHANGED <<machines, stack, published, log, failure, dispatches>>

Unsubscribe == \E t \in Types : unsubscribe(t)

----------------------------------------------------------------------------
(* Subscribers *)

\* mutant: the sale handler forgets the lowLevelWarned guard
saleWarnsNoFlag(stockLevel, lowLevelWarned) ==
    stockLevel <= SaleThreshold

\* line 110: the condition under which a sale fires LowStockWarningEvent
saleWarns(stockLevel, lowLevelWarned) ==
    stockLevel <= SaleThreshold /\ ~lowLevelWarned

\* mutant: the refill handler forgets the lowLevelWarned guard
refillOkNoFlag(stockLevel, lowLevelWarned) ==
    stockLevel >= RefillThreshold

\* mutant: the refill handler fires only strictly above the threshold
refillOkStrict(stockLevel, lowLevelWarned) ==
    stockLevel > RefillThreshold /\ lowLevelWarned

\* line 130: the condition under which a refill fires StockLevelOkEvent
refillOk(stockLevel, lowLevelWarned) ==
    stockLevel >= RefillThreshold /\ lowLevelWarned

\* MachineSaleSubscriber.handle, lines 107-111 (up to the nested publish)
SaleHandle ==
    /\ Handling("saleSubscriber")
    /\ LET e == CurrentEvent
           m == find(e.machineId)
       IN  IF m = "NotFound"
           THEN /\ Throw("NotFound")
                /\ UNCHANGED <<machines, published>>
           ELSE IF e.kind # "Sale"
           THEN /\ Throw("TypeError")   \* event.getSoldQuantity is not a function
                /\ UNCHANGED <<machines, published>>
           ELSE LET s == machines[m].stockLevel - e.qty
                IN  /\ machines' = [machines EXCEPT ![m].stockLevel = s]
                    /\ UNCHANGED failure
                    /\ IF saleWarns(s, machines[m].lowLevelWarned)
                       THEN NestedPublish(LowStockWarningEvent(m), "saleSubscriber")
                       ELSE /\ stack' = HandlerReturn(stack)
                            /\ UNCHANGED <<published, dispatches>>
    /\ UNCHANGED <<subscribers, log, lastReg, removed, calls>>

\* mutant: line 112 sets the flag of every machine of the store
SaleSetWarnedAll ==
    /\ Resuming("saleSubscriber")
    /\ machines' = [m \in MachineIds |-> [machines[m] EXCEPT !.lowLevelWarned = TRUE]]
    /\ stack' = HandlerReturn(stack)
    /\ UNCHANGED <<subscribers, published, log, failure, lastReg, removed, calls,
                   dispatches>>

\* MachineSaleSubscriber.handle, line 112: after publish() has returned
SaleSetWarned ==
    /\ Resuming("saleSubscriber")
    /\ machines' = [machines EXCEPT ![CurrentEvent.machineId].lowLevelWarned = TRUE]
    /\ stack' = HandlerReturn(stack)
    /\ UNCHANGED <<subscribers, published, log, failure, lastReg, removed, calls,
                   dispatches>>

\* MachineRefillSubscriber.handle, lines 127-131 (up to the nested publish)
RefillHandle ==
    /\ Handling("refillSubscriber")
    /\ LET e == CurrentEvent
           m == find(e.machineId)
       IN  IF m = "NotFound"
           THEN /\ Throw("NotFound")
                /\ UNCHANGED <<machines, published>>
           ELSE IF e.kind # "Refill"
           THEN /\ Throw("TypeError")   \* event.getRefillQuantity is not a function
                /\ UNCHANGED <<machines, published>>
           ELSE LET s == machines[m].stockLevel + e.qty
                IN  /\ machines' = [machines EXCEPT ![m].stockLevel = s]
                    /\ UNCHANGED failure
                    /\ IF refillOk(s, machines[m].lowLevelWarned)
                       THEN NestedPublish(StockLevelOkEvent(m), "refillSubscriber")
                       ELSE /\ stack' = HandlerReturn(stack)
                            /\ UNCHANGED <<published, dispatches>>
    /\ UNCHANGED <<subscribers, log, lastReg, removed, calls>>

\* MachineRefillSubscriber.handle, line 132: after publish() has returned
RefillClearWarned ==
    /\ Resuming("refillSubscriber")
    /\ machines' = [machines EXCEPT ![CurrentEvent.machineId].lowLevelWarned = FALSE]
    /\ stack' = HandlerReturn(stack)
    /\ UNCHANGED <<subscribers, published, log, failure, lastReg, removed, calls,
                   dispatches>>

\* StockWarningSubscriber.handle, lines 145-151: prints, changes nothing
StockWarningHandle ==
    /\ Handling("stockWarningSubscriber")
    /\ stack' = HandlerReturn(stack)
    /\ UNCHANGED <<subscribers, machines, published, log, failure, lastReg,
                   removed, calls, dispatches>>

----------------------------------------------------------------------------
(* Specifications *)

\* any driver: publishes, subscribes and unsubscribes in any order
Next ==
    \/ DriverPublish
    \/ Subscribe
    \/ Unsubscribe
    \/ Invoke
    \/ PublishReturn
    \/ SaleHandle
    \/ SaleSetWarned
    \/ RefillHandle
    \/ RefillClearWarned
    \/ StockWarningHandle

Spec == Init /\ [][Next]_vars

\* the steps of a running publish() call: synchronous code, which the engine
\* runs to completion
Run ==
    \/ Invoke
    \/ PublishReturn
    \/ SaleHandle
    \/ SaleSetWarned
    \/ RefillHandle
    \/ RefillClearWarned
    \/ StockWarningHandle

\* any driver making at most MaxLiveCalls calls, each publish() run to completion
LivePublish == calls < MaxLiveCalls /\ DriverPublish

LiveSubscribe == calls < MaxLiveCalls /\ Subscribe

LiveUnsubscribe == calls < MaxLiveCalls /\ Unsubscribe

NextLive ==
    \/ LivePublish
    \/ LiveSubscribe
    \/ LiveUnsubscribe
    \/ Run

SpecLive == Init /\ [][NextLive]_vars /\ WF_vars(Run)

\* the program's wiring (lines 237-239) with any script of sale and refill events
NextProgram ==
    \/ ScriptPublish
    \/ Invoke
    \/ PublishReturn
    \/ SaleHandle
    \/ SaleSetWarned
    \/ RefillHandle
    \/ RefillClearWarned
    \/ StockWarningHandle

SpecProgram == Init /\ [][NextProgram]_vars

----------------------------------------------------------------------------
(* Observations used by the properties *)

Quiescent == stack = <<>>

\* the events the driver itself has published, in order
IsDriver(p) == p.by = "driver"

DriverScript ==
    LET d == SelectSeq(published, IsDriver)
    IN  [i \in 1..Len(d) |-> d[i].ev]

\* the variants of the handled events, in handling order
LogKinds == [i \in 1..Len(log) |-> published[log[i].id].ev.kind]

\* indices of `published` holding an event of this variant for this machine
PublishedAt(kind, m) ==
    {i \in 1..Len(published) :
        published[i].ev.kind = kind /\ published[i].ev.machineId = m}

LogAt(kind) == {i \in 1..Len(log) : LogKinds[i] = kind}

IsSaleOrRefill(k) == k \in {"Sale", "Refill"}

Scenario ==
    <<MachineSaleEvent(2, "001"), MachineSaleEvent(2, "001"),
      MachineRefillEvent(2, "001"), MachineRefillEvent(2, "001")>>

ScenarioDone == Quiescent /\ DriverScript = Scenario

----------------------------------------------------------------------------
(* C1 *)

\* C1: an event D published by a handler while event E is being dispatched is
\* handled by no subscriber until the dispatch of E has finished, i.e. while
\* the publish() call of E is still active (below D's on the stack) the log
\* holds no handling of D.
C1_DeferredCascade ==
    \A i \in 2..Len(stack) :
        \A j \in 1..Len(log) : log[j].id # stack[i].id

----------------------------------------------------------------------------
(* C2 *)

\* C2 as stated: after the scenario the handling order is exactly
\* Sale, Sale, LowStockWarning, Refill, Refill, StockLevelOk.
C2_RecordedOrderAsStated ==
    ScenarioDone =>
        LogKinds = <<"Sale", "Sale", "LowStockWarning",
                     "Refill", "Refill", "StockLevelOk">>

\* C2 (amended): after the scenario the recorded handling order holds the two
\* sales and then the two refills, exactly one LowStockWarning, handled before
\* the first refill, and exactly one StockLevelOk, handled directly after the
\* first refill and before the second.
C2_RecordedOrder ==
    ScenarioDone =>
        /\ SelectSeq(LogKinds, IsSaleOrRefill) = <<"Sale", "Sale", "Refill", "Refill">>
        /\ Cardinality(LogAt("LowStockWarning")) = 1
        /\ Cardinality(LogAt("StockLevelOk")) = 1
        /\ \A w \in LogAt("LowStockWarning") : \A r \in LogAt("Refill") : w < r
        /\ \A o \in LogAt("StockLevelOk") :
              /\ 1 < o /\ o < Len(log)
              /\ LogKinds[o - 1] = "Refill"
              /\ LogKinds[o + 1] = "Refill"

C2_Witness ==
    /\ ScenarioDone
    /\ subscribers = ProgramSubscribers
    /\ Len(log) = 6

----------------------------------------------------------------------------
(* C3 *)

\* C3: with the three machines at stock 5, after Sale(2,"001") twice machine
\* "001" is at 1 and exactly one LowStockWarning("001") has been published;
\* after Refill(2,"001") twice more it is at 5, exactly one StockLevelOk("001")
\* has been published, the second refill published nothing, and machines
\* "002" and "003" are still at 5.
C3_ScenarioEndState ==
    /\ (Quiescent /\ DriverScript = SubSeq(Scenario, 1, 2)) =>
          /\ machines["001"].stockLevel = 1
          /\ Cardinality(PublishedAt("LowStockWarning", "001")) = 1
    /\ ScenarioDone =>
          /\ machines["001"].stockLevel = 5
          /\ Cardinality(PublishedAt("LowStockWarning", "001")) = 1
          /\ Cardinality(PublishedAt("StockLevelOk", "001")) = 1
          /\ published[Len(published)] =
                [ev |-> MachineRefillEvent(2, "001"), by |-> "driver"]
          /\ machines["002"].stockLevel = 5
          /\ machines["003"].stockLevel = 5

C3_Witness ==
    /\ ScenarioDone
    /\ machines["001"].stockLevel = 5
    /\ PublishedAt("StockLevelOk", "001") # {}

----------------------------------------------------------------------------
(* C4 *)

IsDerived(p) == p.ev.kind \in {"LowStockWarning", "StockLevelOk"}

\* the derived events published for machine m, in publication order
Derived(m) ==
    LET IsDerivedFor(p) == IsDerived(p) /\ p.ev.machineId = m
        d == SelectSeq(published, IsDerivedFor)
    IN  [i \in 1..Len(d) |-> d[i].ev.kind]

\* the handler of frame i has published its derived event and not yet resumed
HasPublished(i, h) ==
    /\ stack[i].pc = "afterPublish"
    /\ stack[i].subs[stack[i].idx] = h

\* C4: for every machine the LowStockWarning and StockLevelOk events published
\* for it strictly alternate, starting with LowStockWarning; a sale publishes
\* a LowStockWarning only when the machine was not warned, and a refill
\* publishes a StockLevelOk only when it was warned.
C4_SingleFire ==
    /\ \A m \in MachineIds :
          \A i \in 1..Len(Derived(m)) :
              Derived(m)[i] = IF i % 2 = 1 THEN "LowStockWarning" ELSE "StockLevelOk"
    /\ \A i \in 1..Len(stack) :
          LET m == published[stack[i].id].ev.machineId
          IN  /\ HasPublished(i, "saleSubscriber") => ~machines[m].lowLevelWarned
              /\ HasPublished(i, "refillSubscriber") => machines[m].lowLevelWarned

\* a machine that was warned, refilled to ok and warned again, and then sold
\* from while warned without a further warning
C4_Witness ==
    /\ Quiescent
    /\ Derived("001") = <<"LowStockWarning", "StockLevelOk", "LowStockWarning">>
    /\ published[Len(published)].ev.kind = "Sale"
    /\ published[Len(published)].ev.machineId = "001"

----------------------------------------------------------------------------
(* C5 *)

\* the sale handler runs its body on a sale for a stored machine
SaleStep ==
    /\ Handling("saleSubscriber")
    /\ CurrentEvent.kind = "Sale"
    /\ find(CurrentEvent.machineId) # "NotFound"
    /\ stack' # stack

\* C5: handling Sale(q, m) decrements m's stockLevel by exactly q and
\* publishes a LowStockWarning for m if and only if the resulting stockLevel
\* is strictly less than 3 and lowLevelWarned was false; a sale that leaves
\* the stock at exactly 3 publishes nothing.
C5_SaleThreshold ==
    [][SaleStep =>
        LET m == CurrentEvent.machineId
            after == machines[m].stockLevel - CurrentEvent.qty
        IN  /\ machines'[m].stockLevel = after
            /\ (published' # published)
                  <=> (after < 3 /\ ~machines[m].lowLevelWarned)
            /\ published' # published =>
                  published' = Append(published,
                      [ev |-> LowStockWarningEvent(m), by |-> "saleSubscriber"])]_vars

----------------------------------------------------------------------------
(* C6 *)

\* the refill handler runs its body on a refill for a stored machine
RefillStep ==
    /\ Handling("refillSubscriber")
    /\ CurrentEvent.kind = "Refill"
    /\ find(CurrentEvent.machineId) # "NotFound"
    /\ stack' # stack

\* C6: handling Refill(q, m) increments m's stockLevel by exactly q and
\* publishes a StockLevelOk for m, after which lowLevelWarned is set to false,
\* if and only if the resulting stockLevel is at least 3 and lowLevelWarned
\* was true; otherwise it publishes nothing and leaves the flag as it was.
C6_RefillThreshold ==
    [][/\ RefillStep =>
            LET m == CurrentEvent.machineId
                after == machines[m].stockLevel + CurrentEvent.qty
                fires == after >= 3 /\ machines[m].lowLevelWarned
            IN  /\ machines'[m].stockLevel = after
                /\ machines'[m].lowLevelWarned = machines[m].lowLevelWarned
                /\ fires =>
                      /\ published' = Append(published,
                            [ev |-> StockLevelOkEvent(m), by |-> "refillSubscriber"])
                      /\ stack'[Len(stack)].pc = "afterPublish"
                /\ ~fires =>
                      /\ published' = published
                      /\ stack' = HandlerReturn(stack)
       /\ (Resuming("refillSubscriber") /\ stack' # stack) =>
            LET m == CurrentEvent.machineId
            IN  /\ machines'[m].lowLevelWarned = FALSE
                /\ machines'[m].stockLevel = machines[m].stockLevel
                /\ published' = published]_vars

\* a refill has left a warned machine below 3: nothing published, still warned
C6_Witness ==
    /\ Quiescent
    /\ published # <<>>
    /\ published[Len(published)].ev.kind = "Refill"
    /\ published[Len(published)].ev.machineId = "001"
    /\ machines["001"].lowLevelWarned
    /\ machines["001"].stockLevel < 3

----------------------------------------------------------------------------
(* C7 *)

\* the step is an unsubscribe() call
UnsubscribeStep ==
    /\ calls' = calls + 1
    /\ published' = published
    /\ lastReg'.op = "unsubscribe"

\* C7: unsubscribing a handler H from type T removes H's registration only:
\* every other registration under T, and every registration under another
\* type U, is still there after the call.
C7_UnsubscribeIsolation ==
    [][UnsubscribeStep =>
        \A u \in Types :
            IF u = lastReg'.type
            THEN Len(subscribers'[u]) >= Len(subscribers[u]) - 1
            ELSE subscribers'[u] = subscribers[u]]_vars

----------------------------------------------------------------------------
(* C8 *)

\* C8: after unsubscribe(T) nothing is registered under T, and an
\* unsubscribe of a type that is not registered (a second unsubscribe
\* included) raises no error and leaves the registry exactly as it was.
C8_UnsubscribeIdempotent ==
    [][UnsubscribeStep =>
        /\ subscribers'[lastReg'.type] = <<>>
        /\ subscribers[lastReg'.type] = <<>> =>
              /\ subscribers' = subscribers
              /\ failure' = failure
              /\ stack' = stack]_vars

\* an unsubscribe of a type that an earlier unsubscribe had already removed
C8_Witness ==
    /\ lastReg.op = "unsubscribe"
    /\ ~lastReg.had
    /\ lastReg.type = "sale"
    /\ "saleSubscriber" \in removed["sale"]
    /\ failure = "none"

----------------------------------------------------------------------------
(* C9 *)

\* C9: when the dispatch of an event of type T begins, no handler that has
\* been unsubscribed from T and not subscribed to T since is among the
\* handlers the event is dispatched to, and every delivery is to one of those.
C9_NoDeliveryAfterUnsubscribe ==
    [][/\ published' # published =>
            LET f == stack'[Len(stack')]
            IN  Range(f.subs) \cap removed[type(published'[f.id].ev)] = {}
       /\ log' # log =>
            /\ stack # <<>>
            /\ log' = Append(log, log'[Len(log')])
            /\ log'[Len(log')].id = Top.id
            /\ log'[Len(log')].sub \in Range(Top.subs)]_vars

\* a sale published after unsubscribe("sale") was handled by nobody
C9_Witness ==
    /\ Quiescent
    /\ "saleSubscriber" \in removed["sale"]
    /\ lastReg.op = "unsubscribe"
    /\ lastReg.at = 0
    /\ Len(published) = 1
    /\ published[1].ev.kind = "Sale"
    /\ log = <<>>

----------------------------------------------------------------------------
(* C10 *)

Deliveries(l, id) == {j \in 1..Len(l) : l[j].id = id}

OnStack(id) == \E i \in 1..Len(stack) : stack[i].id = id

\* C10: once the publish call of an event has returned, the event is handled
\* by nobody any more: no later step, a subscribe to its type included, adds
\* a handling of it.
C10_LateSubscription ==
    [][\A id \in 1..Len(published) :
          ~OnStack(id) => Deliveries(log', id) = Deliveries(log, id)]_vars

\* a handler subscribed to "sale" after a published sale had returned; it
\* handled a later sale and not the earlier one
C10_Witness ==
    /\ Quiescent
    /\ lastReg.op = "subscribe"
    /\ lastReg.type = "sale"
    /\ lastReg.handler = "stockWarningSubscriber"
    /\ lastReg.idle
    /\ lastReg.at = 1
    /\ published[1].ev.kind = "Sale"
    /\ \E j \in 1..Len(log) : log[j].id = 1
    /\ \E j \in 1..Len(log) : log[j].id > 1 /\ log[j].sub = "stockWarningSubscriber"
    /\ \A j \in 1..Len(log) : log[j].id = 1 => log[j].sub # "stockWarningSubscriber"

----------------------------------------------------------------------------
(* C11 *)

\* the handlers invoked with event id, in invocation order
HandledBy(id) ==
    LET IsFor(en) == en.id = id
        d == SelectSeq(log, IsFor)
    IN  [i \in 1..Len(d) |-> d[i].sub]

IsPrefix(a, b) == Len(a) <= Len(b) /\ a = SubSeq(b, 1, Len(a))

----------------------------------------------------------------------------
(* C12 *)

\* the events published by handlers because of driver event id (id included)
CausedBy(id) ==
    {k \in id..Len(published) :
        \A j \in (id + 1)..k : published[j].by # "driver"}

Delivered(k) ==
    /\ dispatches[k].state = "returned"
    /\ HandledBy(k) = dispatches[k].subs

DrainComplete ==
    /\ \A id \in 1..Len(published) :
          (published[id].by = "driver" /\ dispatches[id].state = "returned") =>
              \A k \in CausedBy(id) : Delivered(k)
    /\ Quiescent => \A id \in 1..Len(published) : dispatches[id].state # "active"

\* C12: every publish call made by the driver terminates, and when it has
\* returned, the event and every event published by handlers because of it
\* have been delivered to all their subscribers; with no publish call active
\* no event is pending.
C12_CompleteDrain ==
    /\ []DrainComplete
    /\ (~Quiescent) ~> Quiescent

\* a driver publish has returned after a derived event was published and
\* delivered inside it
C12_Witness ==
    /\ Quiescent
    /\ failure = "none"
    /\ \E id \in 1..Len(published) :
          /\ published[id].by = "driver"
          /\ dispatches[id].state = "returned"
          /\ id + 1 \in CausedBy(id)
          /\ Delivered(id + 1)
          /\ dispatches[id + 1].subs # <<>>

----------------------------------------------------------------------------
(* C13 *)

\* the handler that understands the event's variant
HandlerOf(e) ==
    IF e.kind = "Sale" THEN "saleSubscriber" ELSE "refillSubscriber"

\* the driver's publish of a sale or refill for a machine that is not stored
\* is running
UnknownMachineDispatch ==
    /\ stack # <<>>
    /\ published[stack[1].id].ev.machineId \notin DOMAIN machines

\* C13: while a Sale or Refill for a machine id that is not in the store is
\* dispatched, no machine record changes and no event is published, and with
\* the corresponding handler subscribed the publish call ends by throwing
\* NotFound to its caller.
C13_StoreLookupFailure ==
    [][UnknownMachineDispatch =>
        /\ machines' = machines
        /\ published' = published
        /\ (/\ stack' = <<>>
            /\ HandlerOf(published[stack[1].id].ev) \in Range(stack[1].subs))
              => failure' = "NotFound"]_vars

C13_Witness ==
    /\ Quiescent
    /\ failure = "NotFound"
    /\ published # <<>>
    /\ published[Len(published)] =
          [ev |-> MachineSaleEvent(2, UnknownId), by |-> "driver"]
    /\ "saleSubscriber" \in Range(dispatches[Len(published)].subs)
    /\ \A m \in MachineIds : machines[m] = Machine(m)

----------------------------------------------------------------------------
(* C14 *)

\* the publish() calls that have a handler invocation in progress
InvocationsInProgress == {i \in 1..Len(stack) : stack[i].pc # "next"}

\* C14: a publish called from within a handler invokes no handler itself: at
\* most one dispatch loop is active, and no handler invocation begins while
\* another handler invocation is still in progress.
C14_SingleActiveDispatch ==
    /\ Len(stack) <= 1
    /\ Cardinality(InvocationsInProgress) <= 1

----------------------------------------------------------------------------
(* C15 *)

\* a LowStockWarning has been published for m and no StockLevelOk since
WarnedByEvents(m) ==
    /\ Derived(m) # <<>>
    /\ Derived(m)[Len(Derived(m))] = "LowStockWarning"

\* the states the program's code can observe: between driver calls, and when
\* a handler is entered
Observable == Quiescent \/ Top.pc = "handling"

\* C15: in every state, the states in which a derived event is being
\* delivered included, lowLevelWarned of a machine is true if and only if a
\* LowStockWarning has been published for it and no StockLevelOk since.
C15_WarningFlagInvariant ==
    Observable =>
        \A m \in MachineIds : machines[m].lowLevelWarned <=> WarnedByEvents(m)

----------------------------------------------------------------------------
(* C16 *)

\* the variants handler h has been invoked with
VariantsHandledBy(h) == {LogKinds[j] : j \in {i \in 1..Len(log) : log[i].sub = h}}

\* C16 as stated: every variant is a type of its own, so a handler with one
\* subscription (as each of the program's handlers has) is invoked with events
\* of one variant only; one subscribed for LowStockWarning is never invoked
\* with a StockLevelOk.
C16_DistinctVariantTypes ==
    \A h \in Handlers :
        ~({"LowStockWarning", "StockLevelOk"} \subseteq VariantsHandledBy(h))

\* the type string under which the events of a variant are routed
TypeOfVariant(kind) ==
    CASE kind = "Sale" -> "sale"
      [] kind = "Refill" -> "refill"
      [] kind = "LowStockWarning" -> "warning"
      [] kind = "StockLevelOk" -> "warning"

\* C16 (amended): an event is delivered only to handlers subscribed under the
\* type string of its variant: "sale" for Sale, "refill" for Refill and the one
\* string "warning" for both LowStockWarning and StockLevelOk, so that a
\* handler subscribed for "warning" is invoked with the events of both.
C16_TypeKeyedRouting ==
    /\ \A j \in 1..Len(log) :
          log[j].sub \in Range(subscribers[TypeOfVariant(LogKinds[j])])
    /\ Quiescent =>
          \A id \in 1..Len(published) :
              published[id].ev.kind \in {"LowStockWarning", "StockLevelOk"} =>
                  HandledBy(id) = subscribers["warning"]

\* the warning subscriber has handled a LowStockWarning and a StockLevelOk
C16_Witness ==
    /\ Quiescent
    /\ VariantsHandledBy("stockWarningSubscriber") =
          {"LowStockWarning", "StockLevelOk"}

----------------------------------------------------------------------------
(* C17 *)

\* the number of times handler h occurs in the sequence of handlers s
Count(s, h) == Cardinality({i \in 1..Len(s) : s[i] = h})

----------------------------------------------------------------------------
(* C18 *)

\* C18: when a publish call has ended with a failure, no machine is left with
\* a derived event published and its flag not updated: each machine's flag
\* still agrees with the last derived event published for it.
C18_NoPartialUpdate ==
    (Quiescent /\ failure # "none") =>
        \A m \in MachineIds : machines[m].lowLevelWarned <=> WarnedByEvents(m)

----------------------------------------------------------------------------
(* C19 *)

\* the top invocation is the sale handler with a Sale or the refill handler
\* with a Refill
MutatingInvocation ==
    /\ stack # <<>>
    /\ Top.pc \in {"handling", "afterPublish"}
    /\ \/ CurrentHandler = "saleSubscriber" /\ CurrentEvent.kind = "Sale"
       \/ CurrentHandler = "refillSubscriber" /\ CurrentEvent.kind = "Refill"

\* a step of subscribe() or unsubscribe()
RegistrationStep == lastReg' # lastReg \/ subscribers' # subscribers

\* C19: the set of machine ids never changes; a step that changes a machine
\* record is a step of the sale handler handling a Sale, or of the refill
\* handler handling a Refill, for a machine m, and it changes the record of m
\* only; a step of the warning subscriber, of subscribe or of unsubscribe
\* changes no record.
C19_RecordMutationFrame ==
    [][/\ DOMAIN machines' = DOMAIN machines
       /\ machines' # machines =>
             /\ MutatingInvocation
             /\ \A m \in MachineIds :
                   m # CurrentEvent.machineId => machines'[m] = machines[m]
       /\ (Handling("stockWarningSubscriber") \/ RegistrationStep) =>
             machines' = machines]_vars

\* a sale for machine 001 lowered its stock and set its flag, the warning was
\* handled by the warning subscriber, a subscribe or unsubscribe was made, and
\* the other machines are as they were created
C19_Witness ==
    /\ Quiescent
    /\ machines["001"] = [stockLevel |-> 3, lowLevelWarned |-> TRUE]
    /\ \A m \in MachineIds \ {"001"} : machines[m] = Machine(m)
    /\ \E j \in 1..Len(log) :
          log[j].sub = "stockWarningSubscriber" /\ LogKinds[j] = "LowStockWarning"
    /\ lastReg.op # "none"

----------------------------------------------------------------------------
(* C20 *)

\* C20: in every quiescent state of the program, whose machines start at
\* stock 5 and whose events are sales and refills of positive quantities for
\* stored machines, a machine's flag is set if and only if its stockLevel is
\* less than 3.
C20_FlagTracksStock ==
    Quiescent =>
        \A m \in MachineIds :
            machines[m].lowLevelWarned <=> machines[m].stockLevel < 3

====
